---- MODULE Spec2Model ----
(***************************************************************************)
(* A model of the patient-record ETL of src/run.py: extract, transform     *)
(* (age enrichment, department-wise imputation of billing_amount, the      *)
(* department summary), the two loaders and the orchestrator main().       *)
(*                                                                         *)
(* Representation.                                                         *)
(*  - A nullable cell is a sequence of length at most one: <<>> is the     *)
(*    null cell (NaN / NaT / None), <<v>> holds v.  The same encoding is   *)
(*    used for an absent DataFrame (None) against a present one.           *)
(*  - A DataFrame is [cols |-> set of column names, rows |-> sequence of   *)
(*    rows], a row being a function from cols to cells.                    *)
(*  - Money is an integer number of thousandths, so that round(2) has      *)
(*    something to round: 1005 is 1.005 and rounds to a multiple of 10.    *)
(*    Decimal arithmetic is exact here; binary floating-point error of     *)
(*    the pandas computation is not modelled.                              *)
(*  - An instant is an integer number of ticks, TicksPerDay ticks to the   *)
(*    day, so that a timedelta has a part below the day to drop.           *)
(***************************************************************************)
EXTENDS Integers, Sequences, FiniteSets, TLC

VARIABLES
    pc,          \* position of main(): see the actions below
    raw,         \* raw_patients_df of main (line 166): <<>> or <<DataFrame>>
    clean,       \* patients_clean_df of main (line 178)
    summary,     \* department_summary_df of main (line 178)
    today,       \* datetime.now() captured by transform (line 97): <<>> or <<instant>>
    note,        \* the last diagnostic of the run: extract's, or the exception raised
    lake,        \* documents of healthcare_lake_db.patients
    whPatients,  \* documents of healthcare_warehouse_db.patients_clean
    whSummary,   \* documents of healthcare_warehouse_db.department_summary
    files,       \* the snapshot files that exist on disk
    log,         \* the persistence / transform calls main has made in this run
    lake0,       \* lake contents when the run started
    wh0          \* <<whPatients, whSummary>> when the run started

vars == <<pc, raw, clean, summary, today, note, lake, whPatients, whSummary,
          files, log, lake0, wh0>>

-----------------------------------------------------------------------------
(* Bounds of the model *)

MaxRows == 3

MaxPipeRows == 1

TicksPerDay == 2

-----------------------------------------------------------------------------
(* Cells *)

Null == <<>>

Some(v) == <<v>>

IsNull(c) == c = <<>>

Val(c) == c[1]

Abs(n) == IF n < 0 THEN -n ELSE n

\* The sum of a sequence of integers.
RECURSIVE SumSeq(_)
SumSeq(s) == IF s = <<>> THEN 0 ELSE Head(s) + SumSeq(Tail(s))

\* The columns transform reads (lines 96, 103, 111).
Required == {"patient_id", "department", "dob", "billing_amount"}

\* Distinct department keys in the order groupby (sort=True) emits them.
DeptOrder == <<"ER", "ICU">>

-----------------------------------------------------------------------------
(* Step 1 of transform: age, lines 95-99 *)

\* pd.to_datetime(..., errors='coerce'), line 96: a missing cell and a text
\* that is no date both become NaT.  A dob cell holds [parses, at].
ToDatetime(c) ==
    IF IsNull(c) THEN Null
    ELSE IF Val(c).parses THEN Some(Val(c).at) ELSE Null

\* (today - dob).dt.days, line 98: the timedelta's whole days, rounded down
\* (Timedelta.days of -14h is -1).  \div rounds down.
TimedeltaDays(now, at) == (now - at) \div TicksPerDay

\* ... / 365.25, line 98: the quotient days / 365.25 = 4 * days / 1461, kept
\* as its numerator over 1461; NaT gives NaN.
AgeFloat(now, d) ==
    IF IsNull(d) THEN Null ELSE Some(4 * TimedeltaDays(now, Val(d)))

\* Mutant of FillnaZero: the fillna(0) of line 99 left out.
FillnaSkipped(a) == a

\* .fillna(0), line 99.
FillnaZero(a) == IF IsNull(a) THEN Some(0) ELSE a

\* Mutant of AstypeInt: the float rounded to the nearest integer.
AstypeIntRound(a) ==
    IF IsNull(a) THEN Null ELSE Some((2 * Val(a) + 1461) \div 2922)

\* .astype(int), line 99: the float is truncated toward zero.
AstypeInt(a) ==
    IF IsNull(a) THEN Null
    ELSE IF Val(a) >= 0 THEN Some(Val(a) \div 1461)
         ELSE Some(-((-Val(a)) \div 1461))

\* The age column of a row, lines 96-99; now is the single `today` of line 97.
AgeOf(now, r) == AstypeInt(FillnaZero(AgeFloat(now, ToDatetime(r["dob"]))))

-----------------------------------------------------------------------------
(* Step 2 of transform: imputation, lines 102-106 *)

\* The rows of the group of department key d (groupby drops null keys).
GroupIdx(rows, d) == {i \in 1..Len(rows) : rows[i]["department"] = Some(d)}

\* The non-null values of column col over the rows of index set S, in row order.
NonNull(rows, S, col) ==
    LET keep == SelectSeq([i \in 1..Len(rows) |-> i],
                          LAMBDA i : i \in S /\ ~IsNull(rows[i][col]))
    IN  [k \in 1..Len(keep) |-> Val(rows[keep[k]][col])]

\* x.mean() of a group, line 104: NaN-skipping mean as a fraction, NaN for a
\* group with no value.
Mean(vals) ==
    IF vals = <<>> THEN Null
    ELSE Some([num |-> SumSeq(vals), den |-> Len(vals)])

\* x.fillna(x.mean()), line 104, for row i of a group with mean m: the cell
\* as a fraction; filling with NaN leaves NaN.
Fillna(c, m) == IF IsNull(c) THEN m ELSE Some([num |-> Val(c), den |-> 1])

\* Mutant of Imputed: the groupby left out, the fill is the mean of the column.
ImputedColumnMean(rows, i) ==
    Fillna(rows[i]["billing_amount"],
           Mean(NonNull(rows, 1..Len(rows), "billing_amount")))

\* groupby('department')['billing_amount'].transform(...), lines 103-105, for
\* row i: a row whose department is null belongs to no group and gets NaN.
Imputed(rows, i) ==
    LET dep == rows[i]["department"] IN
    IF IsNull(dep) THEN Null
    ELSE Fillna(rows[i]["billing_amount"],
                Mean(NonNull(rows, GroupIdx(rows, Val(dep)), "billing_amount")))

\* .round(2), lines 106 and 115: to the nearest hundredth (10 thousandths),
\* a tie going to the even hundredth; NaN stays NaN.
Round2(q) ==
    IF IsNull(q) THEN Null
    ELSE LET n == Val(q).num
             d == 10 * Val(q).den
             k == n \div d
             r == n - k * d
         IN  IF 2 * r < d THEN Some(10 * k)
             ELSE IF 2 * r > d THEN Some(10 * (k + 1))
             ELSE IF k % 2 = 0 THEN Some(10 * k) ELSE Some(10 * (k + 1))

\* The billing_amount column of row i after lines 103-106.
BillingOf(rows, i) == Round2(Imputed(rows, i))

\* patients_clean_df after lines 93-106: every column kept, dob parsed,
\* age added, billing_amount imputed and rounded; row count and order kept.
CleanRows(now, df) ==
    [i \in 1..Len(df.rows) |->
        [c \in df.cols \cup {"age"} |->
            IF c = "age" THEN AgeOf(now, df.rows[i])
            ELSE IF c = "dob" THEN ToDatetime(df.rows[i]["dob"])
            ELSE IF c = "billing_amount" THEN BillingOf(df.rows, i)
            ELSE df.rows[i][c]]]

-----------------------------------------------------------------------------
(* Step 3 of transform: the department summary, lines 109-115 *)

\* ('patient_id', 'count'), line 111: the group's non-null patient_id cells.
CountAgg(rows, S) == Len(NonNull(rows, S, "patient_id"))

\* ('billing_amount', 'sum'), line 112: NaN-skipping sum, 0 for no value.
SumAgg(rows, S) == SumSeq(NonNull(rows, S, "billing_amount"))

\* Mutant of MeanAgg: the sum divided by the size of the group, nulls included.
MeanAggAllRows(rows, S) ==
    Round2(Some([num |-> SumSeq(NonNull(rows, S, "billing_amount")),
                 den |-> Cardinality(S)]))

\* ('billing_amount', 'mean') and its round(2), lines 113 and 115.
MeanAgg(rows, S) == Round2(Mean(NonNull(rows, S, "billing_amount")))

\* One summary row, for department key d of the cleaned rows.
SummaryRow(rows, d) ==
    [department         |-> d,
     number_of_patients |-> CountAgg(rows, GroupIdx(rows, d)),
     total_revenue      |-> SumAgg(rows, GroupIdx(rows, d)),
     average_billing    |-> MeanAgg(rows, GroupIdx(rows, d))]

\* department_summary_df, lines 110-115: one row per distinct non-null
\* department of the cleaned rows, in key order.
SummaryRows(rows) ==
    LET keys == SelectSeq(DeptOrder, LAMBDA d : GroupIdx(rows, d) # {})
    IN  [k \in 1..Len(keys) |-> SummaryRow(rows, keys[k])]

SummaryCols ==
    {"department", "number_of_patients", "total_revenue", "average_billing"}

\* Mutant of Transform: the KeyError caught, [None, None] returned.
TransformSwallowsKeyError(now, df) ==
    IF IsNull(df) \/ ~(Required \subseteq Val(df).cols)
    THEN [error |-> FALSE, clean |-> Null, summary |-> Null]
    ELSE LET rows == CleanRows(now, Val(df)) IN
         [error   |-> FALSE,
          clean   |-> Some([cols |-> Val(df).cols \cup {"age"}, rows |-> rows]),
          summary |-> Some([cols |-> SummaryCols, rows |-> SummaryRows(rows)])]

\* transform(raw_patients_df), lines 84-119.  A DataFrame without one of the
\* columns read raises KeyError before anything is returned.
Transform(now, df) ==
    IF IsNull(df)
    THEN [error |-> FALSE, clean |-> Null, summary |-> Null]
    ELSE IF ~(Required \subseteq Val(df).cols)
    THEN [error |-> TRUE, clean |-> Null, summary |-> Null]
    ELSE LET rows == CleanRows(now, Val(df)) IN
         [error   |-> FALSE,
          clean   |-> Some([cols |-> Val(df).cols \cup {"age"}, rows |-> rows]),
          summary |-> Some([cols |-> SummaryCols, rows |-> SummaryRows(rows)])]

-----------------------------------------------------------------------------
(* The loaders, lines 122-150 *)

\* df.to_dict('records'), lines 130, 143, 149: one document per row.
Records(df) == df.rows

Prefixes(s) == {SubSeq(s, 1, k) : k \in 0..Len(s)}

\* Mutant of Replace: the delete_many left out, the documents are added.
ReplaceNoDelete(old, docs) ==
    {[ok |-> FALSE, contents |-> old]}
    \cup (IF docs = <<>> THEN {} ELSE {[ok |-> TRUE, contents |-> old \o docs]})

\* collection.delete_many({}) followed by collection.insert_many(docs), lines
\* 129-130, 142-143, 148-149, on a collection holding old.  Neither call is
\* guarded: the store may be unreachable at the delete (old is kept), or the
\* insert may fail after the delete, with only a part of docs written.
\* insert_many refuses an empty list of documents, so an empty DataFrame
\* always fails after its delete.
Replace(old, docs) ==
    {[ok |-> FALSE, contents |-> old]}
    \cup {[ok |-> FALSE, contents |-> p] : p \in Prefixes(docs) \ {docs}}
    \cup {[ok |-> FALSE, contents |-> <<>>]}
    \cup (IF docs = <<>> THEN {} ELSE {[ok |-> TRUE, contents |-> docs]})

-----------------------------------------------------------------------------
(* Inputs *)

Row(p, d, b, a) ==
    [patient_id |-> p, department |-> d, dob |-> b, billing_amount |-> a]

\* A dob cell read as a date at tick t, and one that is no date.
At(t) == Some([parses |-> TRUE, at |-> t])

Unparseable == Some([parses |-> FALSE, at |-> 0])

Seqs(S, n) == UNION {[1..k -> S] : k \in 0..n}

\* The instants datetime.now() may return: midnight of day 2000 and later
\* that day.
Todays == {2000 * TicksPerDay, 2000 * TicksPerDay + 1}

\* dob cells: missing, no date, 366 and 365 days before day 2000, 365 days
\* and a part, 1461 days, and two dates after the run.
DobCells ==
    {Null, Unparseable,
     At(1634 * TicksPerDay), At(1635 * TicksPerDay), At(1634 * TicksPerDay + 1),
     At(539 * TicksPerDay), At(2001 * TicksPerDay), At(2366 * TicksPerDay)}

DeptCells == {Null, Some("ER"), Some("ICU")}

BillingCells == {Null, Some(1000), Some(1005), Some(2010)}

AgeRows == {Row(Some(1), Some("ER"), b, Some(1000)) : b \in DobCells}

BillingRows == {Row(Some(1), d, Null, a) : d \in DeptCells, a \in BillingCells}

CountRows ==
    {Row(p, d, Null, a) : p \in {Null, Some(1)}, d \in DeptCells,
                          a \in {Null, Some(1000)}}

\* The DataFrames transform is applied to on its own.  main reaches transform
\* only after a completed lake load, so never with an empty DataFrame.
TDatasets ==
    {[cols |-> Required, rows |-> rs] :
        rs \in (Seqs(AgeRows, MaxRows) \cup Seqs(BillingRows, MaxRows)
                  \cup Seqs(CountRows, MaxRows)) \ {<<>>}}

\* The DataFrames extract may return in a run of main: every required
\* column, one of them missing, or no column at all (an API answering []).
PipeRows ==
    {Row(Some(1), Some("ER"), At(1634 * TicksPerDay + 1), Some(1005)),
     Row(Null, Null, Null, Null)}

ColumnSets == {Required, {}} \cup {Required \ {c} : c \in Required}

Project(r, cols) == [c \in cols |-> r[c]]

PipeDatasets ==
    {[cols |-> cs, rows |-> [i \in 1..Len(rs) |-> Project(rs[i], cs)]] :
        cs \in ColumnSets, rs \in Seqs(PipeRows, MaxPipeRows)}

\* config['source'], line 10, and a value extract does not know.
Sources == {"local_csv", "csv", "api", "ftp"}

\* The directories of setup_directories and the three snapshot files.
Dirs == {"./data/raw/", "./data/processed/"}

RawFile == "./data/raw/patients.csv"

CleanFile == "./data/processed/patients_clean.csv"

SummaryFile == "./data/processed/department_summary.csv"

-----------------------------------------------------------------------------
(* main(), lines 162-186, one action per stage *)

Init ==
    /\ pc = "extract"
    /\ raw = Null /\ clean = Null /\ summary = Null /\ today = Null
    /\ note = "start"
    /\ lake = <<>> /\ whPatients = <<>> /\ whSummary = <<>>
    /\ files = {}
    /\ log = <<>>
    /\ lake0 = <<>> /\ wh0 = <<<<>>, <<>>>>

\* setup_directories and extract, lines 164-166 (39-43, 46-81): a known
\* source yields a DataFrame or, on any error, None; an unknown source yields
\* None without reading anything.
Extract ==
    /\ pc = "extract"
    /\ \E src \in Sources, failed \in BOOLEAN, df \in PipeDatasets :
          /\ raw' = IF src \in {"local_csv", "csv", "api"} /\ ~failed
                    THEN Some(df) ELSE Null
          /\ note' = IF src \notin {"local_csv", "csv", "api"} THEN "unknown_source"
                     ELSE IF failed THEN "extract_error" ELSE "extracted"
    /\ files' = files \cup Dirs
    /\ pc' = "extracted"
    /\ UNCHANGED <<clean, summary, today, lake, whPatients, whSummary, log,
                   lake0, wh0>>

\* Mutant of Halt: the return of line 170 left out.
HaltFallsThrough ==
    /\ pc = "extracted"
    /\ raw = Null
    /\ pc' = "load_lake"
    /\ UNCHANGED <<raw, clean, summary, today, note, lake, whPatients,
                   whSummary, files, log, lake0, wh0>>

\* Lines 168-170: no data, the run halts and main returns.
Halt ==
    /\ pc = "extracted"
    /\ raw = Null
    /\ pc' = "done"
    /\ UNCHANGED <<raw, clean, summary, today, note, lake, whPatients,
                   whSummary, files, log, lake0, wh0>>

\* Line 172: the raw snapshot.
SnapshotRaw ==
    /\ pc = "extracted"
    /\ raw # Null
    /\ files' = files \cup {RawFile}
    /\ log' = Append(log, "to_csv:raw")
    /\ pc' = "load_lake"
    /\ UNCHANGED <<raw, clean, summary, today, note, lake, whPatients,
                   whSummary, lake0, wh0>>

\* Mutant of LoadLake: load takes the warehouse branch and skips the call.
LoadLakeSkipped ==
    /\ pc = "load_lake"
    /\ pc' = "transform"
    /\ UNCHANGED <<raw, clean, summary, today, note, lake, whPatients,
                   whSummary, files, log, lake0, wh0>>

\* Line 174: load(config, load_to_lake, [raw], is_lake=True), lines 152-156
\* and 122-132.  An exception of the loader leaves main.
LoadLake ==
    /\ pc = "load_lake"
    /\ IF raw # Null
       THEN \E o \in Replace(lake, Records(Val(raw))) :
               /\ lake' = o.contents
               /\ log' = Append(log, "load_to_lake")
               /\ pc' = IF o.ok THEN "transform" ELSE "aborted"
               /\ note' = IF o.ok THEN note ELSE "PersistenceError"
       ELSE /\ pc' = "transform"
            /\ UNCHANGED <<lake, log, note>>
    /\ UNCHANGED <<raw, clean, summary, today, whPatients, whSummary, files,
                   lake0, wh0>>

\* Lines 176-178: transform, with the instant it reads at line 97.  A
\* KeyError leaves main.
DoTransform ==
    /\ pc = "transform"
    /\ \E now \in Todays :
          LET t == Transform(now, raw) IN
          /\ today' = Some(now)
          /\ clean' = t.clean
          /\ summary' = t.summary
          /\ pc' = IF t.error THEN "aborted" ELSE "snapshot_derived"
          /\ note' = IF t.error THEN "KeyError" ELSE note
    /\ log' = Append(log, "transform")
    /\ UNCHANGED <<raw, lake, whPatients, whSummary, files, lake0, wh0>>

\* Lines 180-182: the two derived snapshots, when both DataFrames are there.
SnapshotDerived ==
    /\ pc = "snapshot_derived"
    /\ IF clean # Null /\ summary # Null
       THEN /\ files' = files \cup {CleanFile, SummaryFile}
            /\ log' = log \o <<"to_csv:patients", "to_csv:summary">>
            /\ pc' = "load_warehouse"
       ELSE /\ pc' = "done"
            /\ UNCHANGED <<files, log>>
    /\ UNCHANGED <<raw, clean, summary, today, note, lake, whPatients,
                   whSummary, lake0, wh0>>

\* Line 184: load(config, load_to_warehouse, transformed_dfs), lines 157-159
\* and 134-150: the patients collection, then the summary collection.
LoadWarehouse ==
    /\ pc = "load_warehouse"
    /\ IF clean # Null /\ summary # Null
       THEN \E o1 \in Replace(whPatients, Records(Val(clean))) :
               /\ whPatients' = o1.contents
               /\ log' = Append(log, "load_to_warehouse")
               /\ IF o1.ok
                  THEN \E o2 \in Replace(whSummary, Records(Val(summary))) :
                          /\ whSummary' = o2.contents
                          /\ pc' = IF o2.ok THEN "done" ELSE "aborted"
                          /\ note' = IF o2.ok THEN note ELSE "PersistenceError"
                  ELSE /\ pc' = "aborted"
                       /\ note' = "PersistenceError"
                       /\ UNCHANGED whSummary
       ELSE /\ pc' = "done"
            /\ UNCHANGED <<whPatients, whSummary, log, note>>
    /\ UNCHANGED <<raw, clean, summary, today, lake, files, lake0, wh0>>

\* The next invocation of the script (line 189): a new process, the stores
\* and the files as the last one left them.
NextRun ==
    /\ pc \in {"done", "aborted"}
    /\ pc' = "extract"
    /\ raw' = Null /\ clean' = Null /\ summary' = Null /\ today' = Null
    /\ note' = "start"
    /\ log' = <<>>
    /\ lake0' = lake
    /\ wh0' = <<whPatients, whSummary>>
    /\ UNCHANGED <<lake, whPatients, whSummary, files>>

Next ==
    \/ Extract
    \/ Halt
    \/ SnapshotRaw
    \/ LoadLake
    \/ DoTransform
    \/ SnapshotDerived
    \/ LoadWarehouse
    \/ NextRun

Spec == Init /\ [][Next]_vars

-----------------------------------------------------------------------------
(* transform on its own: main has reached line 176 with a DataFrame *)

InitT ==
    /\ pc = "transform"
    /\ raw \in {Some(df) : df \in TDatasets}
    /\ clean = Null /\ summary = Null /\ today = Null
    /\ note = "extracted"
    /\ lake = Records(Val(raw)) /\ whPatients = <<>> /\ whSummary = <<>>
    /\ files = Dirs \cup {RawFile}
    /\ log = <<"to_csv:raw", "load_to_lake">>
    /\ lake0 = <<>> /\ wh0 = <<<<>>, <<>>>>

NextT == DoTransform

SpecT == InitT /\ [][NextT]_vars

-----------------------------------------------------------------------------
(* Vocabulary of the properties *)

RawRows == Val(raw).rows

DerivedRows == Val(clean).rows

SummaryOut == Val(summary).rows

Depts == {DeptOrder[k] : k \in 1..Len(DeptOrder)}

Transformed == raw # Null /\ clean # Null /\ summary # Null

\* The input rows of department d, and those of them with a billing_amount.
RowsOf(d) == {i \in 1..Len(RawRows) : RawRows[i].department = Some(d)}

BilledRowsOf(d) == {i \in RowsOf(d) : ~IsNull(RawRows[i].billing_amount)}

RECURSIVE BillingSum(_, _)
BillingSum(rows, S) ==
    IF S = {} THEN 0
    ELSE LET i == CHOOSE x \in S : TRUE
         IN  Val(rows[i].billing_amount) + BillingSum(rows, S \ {i})

\* v is sum / cnt rounded to 2 decimals: a whole number of hundredths at most
\* half a hundredth away from the quotient, whichever way a tie is broken.
IsRounded2(v, sum, cnt) == v % 10 = 0 /\ 2 * Abs(v * cnt - sum) <= 10 * cnt

\* Row i has a dob that parses, and the whole days from it to the instant of
\* the run.
Parses(i) == ~IsNull(RawRows[i].dob) /\ Val(RawRows[i].dob).parses

DaysSince(i) == (Val(today) - Val(RawRows[i].dob).at) \div TicksPerDay

-----------------------------------------------------------------------------
(* C1 *)

\* C1: after transform, in every department with at least one non-null raw
\* billing_amount, every row whose raw billing_amount was null holds the mean
\* of the department's raw non-null values rounded to 2 decimals.
C1_ImputedGroupMean ==
    Transformed =>
        \A d \in Depts : BilledRowsOf(d) # {} =>
            \A i \in RowsOf(d) \ BilledRowsOf(d) :
                /\ ~IsNull(DerivedRows[i].billing_amount)
                /\ IsRounded2(Val(DerivedRows[i].billing_amount),
                              BillingSum(RawRows, BilledRowsOf(d)),
                              Cardinality(BilledRowsOf(d)))

\* A department with two billed rows whose mean needs rounding and a row that
\* was filled with it.
C1_Witness ==
    /\ Transformed
    /\ \E d \in Depts :
          /\ Cardinality(BilledRowsOf(d)) = 2
          /\ BillingSum(RawRows, BilledRowsOf(d)) % 20 # 0
          /\ \E i \in RowsOf(d) \ BilledRowsOf(d) :
                ~IsNull(DerivedRows[i].billing_amount)

-----------------------------------------------------------------------------
(* C2 *)

\* C2: every derived record has a non-null billing_amount unless every input
\* record with the same department value had a null billing_amount, whatever
\* the department and billing_amount values of the input are.
C2_NonNullUnlessGroupAllNull ==
    Transformed =>
        \A i \in 1..Len(DerivedRows) :
            IsNull(DerivedRows[i].billing_amount) =>
                \A j \in 1..Len(RawRows) :
                    RawRows[j].department = RawRows[i].department =>
                        IsNull(RawRows[j].billing_amount)

-----------------------------------------------------------------------------
(* C3 *)

\* C3, as stated: for every row whose dob parses, age = floor(d / 365.25), d
\* the whole days from dob to the one instant of the run.
C3_AgeIsFloor ==
    Transformed =>
        \A i \in 1..Len(RawRows) : Parses(i) =>
            DerivedRows[i].age = Some((4 * DaysSince(i)) \div 1461)

\* C3, amended: for every row whose dob parses, age is d / 365.25 truncated
\* toward zero, d the whole days from dob to the one instant of the run; that
\* is floor(d / 365.25) when the dob is not after that instant.
C3_AgeIsTruncated ==
    Transformed =>
        \A i \in 1..Len(RawRows) : Parses(i) =>
            /\ DaysSince(i) >= 0 =>
                  DerivedRows[i].age = Some((4 * DaysSince(i)) \div 1461)
            /\ DaysSince(i) < 0 =>
                  DerivedRows[i].age = Some(-((4 * (-DaysSince(i))) \div 1461))

\* A dataset with a row just under a year old, a row just over and a row
\* whose dob is more than a year after the run.
C3_Witness ==
    /\ Transformed
    /\ \E i, j, k \in 1..Len(RawRows) :
          /\ Parses(i) /\ DaysSince(i) = 365 /\ DerivedRows[i].age = Some(0)
          /\ Parses(j) /\ DaysSince(j) = 366 /\ DerivedRows[j].age = Some(1)
          /\ Parses(k) /\ DaysSince(k) < -365 /\ DerivedRows[k].age = Some(-1)

-----------------------------------------------------------------------------
(* C4 *)

\* C4: every row whose dob is missing or does not parse has age 0, and no
\* derived row has a null age.
C4_AgeDefaultsToZero ==
    Transformed =>
        \A i \in 1..Len(DerivedRows) :
            /\ ~IsNull(DerivedRows[i].age)
            /\ Val(DerivedRows[i].age) \in Int
            /\ ~Parses(i) => DerivedRows[i].age = Some(0)

\* A missing dob, an unparseable dob and a dob with a non-zero age together.
C4_Witness ==
    /\ Transformed
    /\ \E i, j, k \in 1..Len(RawRows) :
          /\ IsNull(RawRows[i].dob) /\ DerivedRows[i].age = Some(0)
          /\ RawRows[j].dob = Unparseable /\ DerivedRows[j].age = Some(0)
          /\ Parses(k) /\ DerivedRows[k].age # Some(0)

-----------------------------------------------------------------------------
(* C5 *)

\* The derived rows of department d, and those with a billing_amount.
DerivedOf(d) == {i \in 1..Len(DerivedRows) : DerivedRows[i].department = Some(d)}

DerivedBilledOf(d) == {i \in DerivedOf(d) : ~IsNull(DerivedRows[i].billing_amount)}

\* C5: for every department of the summary, total_revenue is the sum of the
\* department's derived billing_amount values, nulls counting 0, and
\* average_billing is the mean of the non-null ones rounded to 2 decimals,
\* null when there is none.
C5_RevenueAndAverage ==
    Transformed =>
        \A k \in 1..Len(SummaryOut) :
            LET s == SummaryOut[k]
                B == DerivedBilledOf(s.department)
            IN  /\ s.total_revenue = BillingSum(DerivedRows, B)
                /\ B = {} => IsNull(s.average_billing)
                /\ B # {} =>
                      /\ ~IsNull(s.average_billing)
                      /\ IsRounded2(Val(s.average_billing),
                                    BillingSum(DerivedRows, B), Cardinality(B))

\* A summary with a department that has a filled row and a department with
\* no billing_amount at all.
C5_Witness ==
    /\ Transformed
    /\ \E k, l \in 1..Len(SummaryOut) :
          /\ Cardinality(DerivedBilledOf(SummaryOut[k].department)) = 2
          /\ Cardinality(BilledRowsOf(SummaryOut[k].department)) = 1
          /\ SummaryOut[k].total_revenue > 0
          /\ IsNull(SummaryOut[l].average_billing)
          /\ SummaryOut[l].total_revenue = 0

-----------------------------------------------------------------------------
(* C6 *)

\* C6: for every department value of the input, the summary has
\* number_of_patients equal to the number of input rows with that value.
C6_CountsRows ==
    Transformed =>
        \A d \in Depts : RowsOf(d) # {} =>
            \E k \in 1..Len(SummaryOut) :
                /\ SummaryOut[k].department = d
                /\ SummaryOut[k].number_of_patients = Cardinality(RowsOf(d))

-----------------------------------------------------------------------------
(* C7 *)

StageOrder ==
    <<"to_csv:raw", "load_to_lake", "transform",
      "to_csv:patients", "to_csv:summary", "load_to_warehouse">>

InLog(call) == \E k \in 1..Len(log) : log[k] = call

\* C7: a run whose extract returned no data (an extraction error or an
\* unknown source) ends normally at the halt, having called no loader and
\* written no snapshot, with the lake and the warehouse as the run found them.
C7_NoDataNoPersistence ==
    (pc # "extract" /\ raw = Null) =>
        /\ note \in {"extract_error", "unknown_source"}
        /\ pc \in {"extracted", "done"}
        /\ pc = "extracted" => ENABLED Halt
        /\ log = <<>>
        /\ lake = lake0
        /\ <<whPatients, whSummary>> = wh0

\* A halted run with an unknown source that found documents in both stores.
C7_Witness ==
    /\ pc = "done" /\ raw = Null /\ note = "unknown_source"
    /\ lake # <<>> /\ whPatients # <<>> /\ whSummary # <<>>

-----------------------------------------------------------------------------
(* C8 *)

\* C8: the calls of a run are made in the order raw snapshot, lake load,
\* transform, the two derived snapshots, warehouse load; the derived
\* snapshots and the warehouse load only with both derived datasets present;
\* the warehouse is not written before the lake load of the run has
\* completed; a run that ends normally with data has made every call.
C8_StageOrder ==
    /\ log \in Prefixes(StageOrder)
    /\ raw # Null /\ pc # "extracted" => Len(log) >= 1
    /\ (InLog("to_csv:patients") \/ InLog("to_csv:summary")
          \/ InLog("load_to_warehouse")) => clean # Null /\ summary # Null
    /\ <<whPatients, whSummary>> # wh0 =>
          /\ InLog("load_to_warehouse")
          /\ lake = Records(Val(raw))
    /\ InLog("transform") => lake = Records(Val(raw))
    /\ (pc = "done" /\ raw # Null) => log = StageOrder

\* A run with data that has gone through every stage.
C8_Witness ==
    /\ pc = "done" /\ raw # Null /\ log = StageOrder
    /\ <<whPatients, whSummary>> # wh0

-----------------------------------------------------------------------------
(* C9 *)

\* C9: once a load has completed, the collection holds exactly the records
\* of the dataset loaded and nothing of what it held before: the lake after
\* load_to_lake, both warehouse collections after load_to_warehouse, so that
\* a completed run leaves in each collection the records of that run only.
C9_FullReplace ==
    /\ (raw # Null /\ pc \in {"transform", "snapshot_derived", "load_warehouse", "done"})
          => lake = Records(Val(raw))
    /\ (pc = "aborted" /\ InLog("transform")) => lake = Records(Val(raw))
    /\ (InLog("load_to_warehouse") /\ whSummary # wh0[2])
          => whPatients = Records(Val(clean))
    /\ (raw # Null /\ pc = "done") =>
          /\ whPatients = Records(Val(clean))
          /\ whSummary = Records(Val(summary))

\* A completed run over stores that held other documents.
C9_Witness ==
    /\ pc = "done" /\ raw # Null
    /\ lake0 # <<>> /\ lake0 # lake
    /\ wh0[1] # <<>> /\ wh0[1] # whPatients
    /\ wh0[2] # <<>>

-----------------------------------------------------------------------------
(* C10 *)

MissingColumn == raw # Null /\ ~(Required \subseteq Val(raw).cols)

\* C10: when the extracted dataset lacks a required column, the run never
\* gets past transform: no derived dataset, no derived snapshot, no call of
\* load_to_warehouse, the warehouse as the run found it; transform, once
\* called, has raised out of main, after the raw snapshot and the lake load.
C10_MissingColumnAborts ==
    MissingColumn =>
        /\ pc \in {"extracted", "load_lake", "transform", "aborted"}
        /\ clean = Null /\ summary = Null
        /\ ~InLog("to_csv:patients") /\ ~InLog("to_csv:summary")
        /\ ~InLog("load_to_warehouse")
        /\ <<whPatients, whSummary>> = wh0
        /\ InLog("transform") =>
              /\ pc = "aborted" /\ note = "KeyError"
              /\ log = <<"to_csv:raw", "load_to_lake", "transform">>
              /\ RawFile \in files
              /\ lake = Records(Val(raw))

\* transform has raised on a dataset with a column missing, over a warehouse
\* that held documents.
C10_Witness ==
    /\ MissingColumn /\ pc = "aborted" /\ note = "KeyError"
    /\ whPatients # <<>> /\ whSummary # <<>>

====
